---- MODULE Spec2Model ----
(***************************************************************************)
(* Model of t76/scpi/trie_generator.py: the SCPI command-schema compiler.  *)
(* A run loads a definition, validates it, builds the command trie one     *)
(* variation at a time, and then either prints information or generates    *)
(* the C++ code and writes it to the destination file.                     *)
(*                                                                         *)
(* Strings are sequences of one-character strings.                         *)
(***************************************************************************)
EXTENDS Integers, Sequences, FiniteSets, TLC

VARIABLES definition, info, pc, error, trie, cmd_i, var_j, cpp_code, output_file,
          stdout

vars == <<definition, info, pc, error, trie, cmd_i, var_j, cpp_code, output_file,
         stdout>>

\* Python's None, for a string-valued field.
None == "None"

\* An Optional[int] is the set of its values: None is the empty set and
\* an index i is {i}.
NoIndex == {}
Some(i) == {i}

(***************************************************************************)
(* Bounds of the explored inputs.                                          *)
(***************************************************************************)
\* Longest enumerated syntax string.
MaxLen == 2
\* Most commands in one definition.
MaxCommands == 2
\* Inputs of the matcher are tried in every casing when they have at most
\* this many letters, and in three casings otherwise.
MaxCasedLetters == 4
\* Most parameters of one command in the definitions that combine parameters.
MaxParams == 2
\* Longest enumerated trie path given to the node namer.
MaxPathLen == 3

(***************************************************************************)
(* Characters.                                                             *)
(***************************************************************************)
UpperLetters ==
    <<"A","B","C","D","E","F","G","H","I","J","K","L","M",
      "N","O","P","Q","R","S","T","U","V","W","X","Y","Z">>

LowerLetters ==
    <<"a","b","c","d","e","f","g","h","i","j","k","l","m",
      "n","o","p","q","r","s","t","u","v","w","x","y","z">>

Digits == {"0","1","2","3","4","5","6","7","8","9"}

Range(s) == {s[k] : k \in 1..Len(s)}

UpperLetterSet == Range(UpperLetters)
LowerLetterSet == Range(LowerLetters)

IsUpperLetter(c) == c \in UpperLetterSet
IsLowerLetter(c) == c \in LowerLetterSet

\* The regex class [A-Z_0-9].
UpperClass(c) == IsUpperLetter(c) \/ c \in Digits \/ c = "_"
\* The regex class [a-z_0-9].
LowerClass(c) == IsLowerLetter(c) \/ c \in Digits \/ c = "_"

\* The separators the expander keeps in place.
IsSpecial(c) == c \in {"*", ":", "?"}

\* The uppercase letter of each lowercase letter.
UpperOf ==
    [c \in LowerLetterSet |->
        UpperLetters[CHOOSE k \in 1..Len(LowerLetters) : LowerLetters[k] = c]]

\* str.upper() on one character: a-z go to A-Z, everything else is kept.
UpperChar(c) == IF IsLowerLetter(c) THEN UpperOf[c] ELSE c

\* str.upper() without the conversion (a variation kept as written).
upper_kept(s) == s

\* str.upper() as applied to each variation.
upper(s) == [k \in 1..Len(s) |-> UpperChar(s[k])]

(***************************************************************************)
(* Validation.                                                             *)
(***************************************************************************)
\* One segment against [A-Z_0-9]+[a-z_0-9]* (anchored on both sides).
SegmentMatches(seg) ==
    \E k \in 1..Len(seg) :
        /\ \A p \in 1..k : UpperClass(seg[p])
        /\ \A p \in (k+1)..Len(seg) : LowerClass(seg[p])

\* Positions of ':' in s, ascending, as a set.
ColonPositions(s) == {p \in 1..Len(s) : s[p] = ":"}

\* The body (between the optional '*' and the optional '?') is a
\* ':'-separated list of one or more matching segments.
BodyMatches(b) ==
    LET cuts == ColonPositions(b) \cup {0, Len(b) + 1}
    IN  \A lo \in cuts : \A hi \in cuts :
            (lo < hi /\ \A m \in cuts : ~(lo < m /\ m < hi))
                => SegmentMatches(SubSeq(b, lo + 1, hi - 1))

\* re.match(r'^([\*]?([A-Z_0-9]+[a-z_0-9]*)(:[A-Z_0-9]+[a-z_0-9]*)*)(\?)?$', syntax)
SyntaxMatches(s) ==
    LET first == IF Len(s) > 0 /\ s[1] = "*" THEN 2 ELSE 1
        last  == IF Len(s) >= first /\ s[Len(s)] = "?" THEN Len(s) - 1 ELSE Len(s)
    IN  BodyMatches(SubSeq(s, first, last))

\* [a-zA-Z_] and [a-zA-Z0-9_].
IdentStart(c) == IsUpperLetter(c) \/ IsLowerLetter(c) \/ c = "_"
IdentChar(c) == IdentStart(c) \/ c \in Digits

\* re.match(r'^[a-zA-Z_][a-zA-Z0-9_]*$', name).
ParamNameMatches(n) ==
    /\ Len(n) > 0
    /\ IdentStart(n[1])
    /\ \A p \in 1..Len(n) : IdentChar(n[p])

\* The parameter types of line 40.
ParameterTypes == {"string", "number", "boolean", "enum", "arbitrarydata"}

\* A default or a choices value is a record of the Python type of the value
\* (tag) and the value; "none" is None.  bool(choices): a non-empty value.
ChoicesTruthy(v) == v.tag # "none" /\ v.items # <<>>

\* isinstance(default, (int, float)): bool is a subclass of int.
IsNumberInstance(d) == d.tag \in {"int", "float", "bool"}

\* isinstance(default, str), isinstance(default, bool).
IsStrInstance(d) == d.tag = "str"
IsBoolInstance(d) == d.tag = "bool"

\* default in choices (choices a list of strings): some element equals
\* the default.
InChoices(d, choices) ==
    d.tag = "str" /\ \E k \in 1..Len(choices.items) : choices.items[k] = d.val

\* The test of line 74 never raises.
EnumHasChoicesSkipped(p) == TRUE

\* Line 74 does not raise: an enum parameter has at least one choice.
EnumHasChoices(p) == p.type = "enum" => ChoicesTruthy(p.choices)

\* SCPIDefinitionParameter.validate returns without raising.
ParameterValid(p) ==
    /\ p.type \in ParameterTypes
    /\ ~(ChoicesTruthy(p.choices) /\ p.choices.tag # "list")
    /\ (p.default.tag # "none" /\ p.type = "number") => IsNumberInstance(p.default)
    /\ (p.default.tag # "none" /\ p.type = "string") => IsStrInstance(p.default)
    /\ (p.default.tag # "none" /\ p.type = "boolean") => IsBoolInstance(p.default)
    /\ (p.type = "enum" /\ ChoicesTruthy(p.choices) /\ p.default.tag # "none")
          => InChoices(p.default, p.choices)
    /\ EnumHasChoices(p)
    /\ p.type = "arbitrarydata"
          => (p.default.tag = "none" /\ p.choices.tag = "none")
    /\ ParamNameMatches(p.name)

\* Line 141 raises only when neither a handler nor a response is given.
HandlerXorResponseNeitherOnly(c) ==
    ~(c.handler = None /\ c.response = None)

\* Line 141 does not raise: not neither, and not both.
HandlerXorResponse(c) ==
    ~( (c.handler = None /\ c.response = None)
       \/ (c.handler # None /\ c.response # None) )

\* SCPIDefinitionCommand.validate returns without raising; the loop of
\* lines 151-153 validates every parameter.
CommandValid(c) ==
    /\ c.syntax # <<>>
    /\ SyntaxMatches(c.syntax)
    /\ HandlerXorResponse(c)
    /\ \A k \in 1..Len(c.parameters) : ParameterValid(c.parameters[k])

\* re.match(r'^[a-zA-Z_][a-zA-Z0-9_]*(::?[a-zA-Z_][a-zA-Z0-9_]*)*$', namespace):
\* identifiers separated by ':' or '::'.
NamespaceMatches(n) ==
    /\ Len(n) > 0
    /\ n[1] # ":"
    /\ n[Len(n)] # ":"
    /\ \A p \in 1..Len(n) :
          IF n[p] = ":"
          THEN ~(p + 2 <= Len(n) /\ n[p+1] = ":" /\ n[p+2] = ":")
          ELSE /\ IdentChar(n[p])
               /\ (p = 1 \/ n[p-1] = ":") => IdentStart(n[p])

\* The loop of lines 210-211 ends after the first command.
FirstCommandOnly(commands, k) ==
    k > Len(commands) \/ CommandValid(commands[k])

RECURSIVE CommandsValidFrom(_, _)
\* The loop of lines 210-211 from position k on: no command raises.
CommandsValidFrom(commands, k) ==
    IF k > Len(commands)
    THEN TRUE
    ELSE CommandValid(commands[k]) /\ CommandsValidFrom(commands, k + 1)

\* SCPIDefinition.validate returns without raising.
DefinitionValid(d) ==
    /\ d.namespace # <<>>
    /\ NamespaceMatches(d.namespace)
    /\ d.class_name # <<>>
    /\ d.output_file # <<>>
    /\ d.commands # <<>>
    /\ CommandsValidFrom(d.commands, 1)

(***************************************************************************)
(* The variation expander.                                                 *)
(***************************************************************************)
RECURSIVE SplitFrom(_, _, _)
\* The loop of lines 289-299 from position p on, current_segment = cur.
SplitFrom(s, p, cur) ==
    IF p > Len(s)
    THEN IF cur # <<>> THEN <<cur>> ELSE <<>>
    ELSE IF IsSpecial(s[p])
         THEN (IF cur # <<>> THEN <<cur>> ELSE <<>>)
                  \o <<(<<s[p]>>)>> \o SplitFrom(s, p + 1, <<>>)
         ELSE SplitFrom(s, p + 1, Append(cur, s[p]))

\* The segments of a syntax: the separators and the runs between them.
Segments(s) == SplitFrom(s, 1, <<>>)

\* Length of the greedy match of [A-Z_0-9]+ at the start of seg (0: no match).
UpperPartLen(seg) ==
    LET stops == {k \in 1..Len(seg) : ~UpperClass(seg[k])}
    IN  IF stops = {} THEN Len(seg)
        ELSE (CHOOSE k \in stops : \A m \in stops : k <= m) - 1

\* Length of the greedy match of [a-z_0-9]* from position from on.
LowerPartLen(seg, from) ==
    LET stops == {k \in from..Len(seg) : ~LowerClass(seg[k])}
    IN  IF stops = {} THEN Len(seg) - from + 1
        ELSE (CHOOSE k \in stops : \A m \in stops : k <= m) - from

\* The alternatives of one segment, full form only.
SegmentVariationsFullOnly(seg) ==
    IF Len(seg) = 1 /\ IsSpecial(seg[1])
    THEN <<seg>>
    ELSE LET u == UpperPartLen(seg)
             l == LowerPartLen(seg, u + 1)
         IN  IF u > 0 THEN <<SubSeq(seg, 1, u + l)>> ELSE <<seg>>

\* The alternatives of one segment (lines 303-318): a separator as it is,
\* otherwise the upper part and, when there is a lower part, upper + lower.
SegmentVariations(seg) ==
    IF Len(seg) = 1 /\ IsSpecial(seg[1])
    THEN <<seg>>
    ELSE LET u == UpperPartLen(seg)
             l == LowerPartLen(seg, u + 1)
         IN  IF u > 0
             THEN IF l > 0
                  THEN <<SubSeq(seg, 1, u), SubSeq(seg, 1, u + l)>>
                  ELSE <<SubSeq(seg, 1, u)>>
             ELSE <<seg>>

RECURSIVE Flatten(_)
\* Concatenation of a sequence of sequences.
Flatten(ss) == IF ss = <<>> THEN <<>> ELSE Head(ss) \o Flatten(Tail(ss))

RECURSIVE ProductJoin(_)
\* ''.join(combination) for combination in product(*segment_variations),
\* in the order of itertools.product (the last segment varies fastest).
ProductJoin(sv) ==
    IF sv = <<>>
    THEN << <<>> >>
    ELSE LET rest == ProductJoin(Tail(sv))
         IN  Flatten([h \in 1..Len(Head(sv)) |->
                        [r \in 1..Len(rest) |-> Head(sv)[h] \o rest[r]]])

\* SCPITrie._generate_command_variations.
generate_command_variations(syntax) ==
    LET segments == Segments(syntax)
        segment_variations ==
            [k \in 1..Len(segments) |-> SegmentVariations(segments[k])]
        variations == ProductJoin(segment_variations)
    IN  [k \in 1..Len(variations) |-> upper(variations[k])]

(***************************************************************************)
(* The inputs of a run.                                                    *)
(***************************************************************************)
\* The characters of the enumerated syntaxes.
EnumAlphabet == {"A", "a", ":"}

\* Every string over EnumAlphabet of at most n characters.
Strings(n) == UNION {[1..k -> EnumAlphabet] : k \in 0..n}

\* The enumerated syntaxes that pass the syntax pattern.
EnumSyntaxes == {s \in Strings(MaxLen) : SyntaxMatches(s)}

\* Syntaxes that fail the syntax pattern.
BadSyntaxes == {<<>>, <<"A",":">>}

\* Syntaxes of the shipped examples and of the documentation.
Syntax_LED_STATe_Q   == <<"L","E","D",":","S","T","A","T","e","?">>
Syntax_IDN_Q         == <<"*","I","D","N","?">>
Syntax_MEAS_VOLT_Q   == <<"M","E","A","S",":","V","O","L","T","?">>
Syntax_MEAS_VOLTage_Q == <<"M","E","A","S",":","V","O","L","T","a","g","e","?">>
Syntax_STATe         == <<"S","T","A","T","e">>
Syntax_STATE         == <<"S","T","A","T","E">>
Syntax_CH1on         == <<"C","H","1","o","n">>
Syntax_SYSTem_ERRor_Q == <<"S","Y","S","T","e","m",":","E","R","R","o","r","?">>
Syntax_OUTput1_Q     == <<"O","U","T","p","u","t","1","?">>
Syntax_X_1y_2        == <<"X","_","1","y","_","2">>

SampleSyntaxes ==
    {Syntax_LED_STATe_Q, Syntax_IDN_Q, Syntax_MEAS_VOLT_Q, Syntax_MEAS_VOLTage_Q,
     Syntax_STATe, Syntax_STATE, Syntax_CH1on, Syntax_SYSTem_ERRor_Q,
     Syntax_OUTput1_Q, Syntax_X_1y_2}

\* parameters of a command without parameters.  from_dict stores None for a
\* missing or empty list, and every use tests the truth of the field, so
\* None is the empty list here.
NoParameters == <<>>

\* The sample commands: a query answered by a fixed response, the others
\* by a handler.
SampleCommands ==
    {[syntax |-> s,
      handler |-> IF s = Syntax_IDN_Q THEN None ELSE "h",
      response |-> IF s = Syntax_IDN_Q THEN "r" ELSE None,
      parameters |-> NoParameters] : s \in SampleSyntaxes}

\* A command with a handler, a command with a response.
CommandsOver(syntaxes) ==
    {[syntax |-> s, handler |-> k[1], response |-> k[2],
      parameters |-> NoParameters] :
        s \in syntaxes, k \in {<<"h", None>>, <<None, "r">>}}

\* Commands that SCPIDefinitionCommand.validate rejects.
BadCommands ==
    {[syntax |-> s, handler |-> "h", response |-> None,
      parameters |-> NoParameters] : s \in BadSyntaxes}
    \cup {[syntax |-> <<"A">>, handler |-> None, response |-> None,
           parameters |-> NoParameters],
          [syntax |-> <<"A">>, handler |-> "h", response |-> "r",
           parameters |-> NoParameters]}

\* Every list of at most n elements of S (the empty list included).
Lists(S, n) == UNION {[1..k -> S] : k \in 0..n}

\* The sample definitions: one sample command, or two in either order.
SampleLists ==
    {<<c>> : c \in SampleCommands}
    \cup {<<c, d>> : c \in SampleCommands, d \in SampleCommands}

\* Values of default: None, an int, a float, two strings, a bool.
NoDefault == [tag |-> "none", val |-> <<>>]
Defaults ==
    {NoDefault,
     [tag |-> "int", val |-> <<"5">>],
     [tag |-> "float", val |-> <<"2",".","5">>],
     [tag |-> "str", val |-> <<"a">>],
     [tag |-> "str", val |-> <<"z","z">>],
     [tag |-> "bool", val |-> <<"T","r","u","e">>]}

\* Values of choices: None, an empty list, a list of two strings, a string
\* in place of the list.
NoChoices == [tag |-> "none", items |-> <<>>]
ChoicesValues ==
    {NoChoices,
     [tag |-> "list", items |-> <<>>],
     [tag |-> "list", items |-> << <<"a">>, <<"b","b">> >>],
     [tag |-> "str", items |-> << <<"a">> >>]}

\* The parameters: every type with every default and every choices value,
\* a name that fails the pattern, a type that is not one of the five.
Parameters ==
    {[name |-> <<"p">>, type |-> t, default |-> d, choices |-> c] :
        t \in ParameterTypes, d \in Defaults, c \in ChoicesValues}
    \cup {[name |-> <<"1","x">>, type |-> "string", default |-> NoDefault,
           choices |-> NoChoices],
          [name |-> <<"p">>, type |-> "integer", default |-> NoDefault,
           choices |-> NoChoices]}

\* A command with one parameter.
OneParameterLists ==
    {<<[syntax |-> <<"P">>, handler |-> "h", response |-> None,
        parameters |-> <<p>>]>> : p \in Parameters}

\* An enum parameter with a default, a number parameter with a default, a
\* boolean parameter whose default is a string.
Param_mode == [name |-> <<"m","o","d","e">>, type |-> "enum",
               default |-> [tag |-> "str", val |-> <<"a">>],
               choices |-> [tag |-> "list", items |-> << <<"a">>, <<"b","b">> >>]]
Param_level == [name |-> <<"l","e","v","e","l">>, type |-> "number",
                default |-> [tag |-> "int", val |-> <<"5">>],
                choices |-> NoChoices]
Param_bad == [name |-> <<"o","n">>, type |-> "boolean",
              default |-> [tag |-> "str", val |-> <<"a">>],
              choices |-> NoChoices]

\* Commands with at most MaxParams parameters: a command with a handler
\* followed, or not, by a query with a response.
ParameterLists == Lists({Param_mode, Param_level, Param_bad}, MaxParams)
ParamCommandLists ==
    LET first == {[syntax |-> <<"P">>, handler |-> "h", response |-> None,
                   parameters |-> ps] : ps \in ParameterLists}
        second == {[syntax |-> <<"Q","q","?">>, handler |-> None,
                    response |-> "r", parameters |-> ps] : ps \in ParameterLists}
    IN  {<<c>> : c \in first} \cup {<<c, d>> : c \in first, d \in second}

CommandLists ==
    Lists(CommandsOver(EnumSyntaxes) \cup BadCommands, MaxCommands)
    \cup SampleLists
    \cup OneParameterLists
    \cup ParamCommandLists

GoodNamespace == <<"T","7","6",":",":","A","p","p">>
GoodClassName == <<"A","p","p">>
GoodOutputFile == <<"o","u","t",".","c","p","p">>

\* Headers that SCPIDefinition.validate rejects.
BadHeaders ==
    {[namespace |-> <<>>, class_name |-> GoodClassName, output_file |-> GoodOutputFile],
     [namespace |-> <<"7","x">>, class_name |-> GoodClassName, output_file |-> GoodOutputFile],
     [namespace |-> <<"a",":",":",":","b">>, class_name |-> GoodClassName, output_file |-> GoodOutputFile],
     [namespace |-> GoodNamespace, class_name |-> <<>>, output_file |-> GoodOutputFile],
     [namespace |-> GoodNamespace, class_name |-> GoodClassName, output_file |-> <<>>]}

\* The definitions a run may load.
Definitions ==
    {[namespace |-> GoodNamespace, class_name |-> GoodClassName,
      output_file |-> GoodOutputFile, commands |-> cs] : cs \in CommandLists}
    \cup {[namespace |-> h.namespace, class_name |-> h.class_name,
           output_file |-> h.output_file,
           commands |-> <<[syntax |-> Syntax_IDN_Q, handler |-> None,
                           response |-> "r", parameters |-> NoParameters]>>] :
              h \in BadHeaders}

(***************************************************************************)
(* The trie.  A node is named by the path from the root to it; children    *)
(* lists the characters of its children in the order they were added (the  *)
(* order of the children dict).                                            *)
(***************************************************************************)
\* SCPITrieNode.__init__ with the node created terminal.
NewNodeTerminal(character) ==
    [character |-> character, children |-> <<>>, terminal |-> TRUE,
     command_index |-> NoIndex]

\* SCPITrieNode.__init__.
NewNode(character) ==
    [character |-> character, children |-> <<>>, terminal |-> FALSE,
     command_index |-> NoIndex]

\* No trie has been constructed yet.
NoTrie == [p \in {} |-> NewNode("")]

\* SCPITrie.__init__, before the first insertion: the root alone.
RootOnly == (<<>> :> NewNode(""))

\* Line 272 without the test: a child is created at every character.
NotInChildrenAlways(node, char) == TRUE

\* Line 272: char not in current_node.children.
NotInChildren(node, char) == char \notin Range(node.children)

\* add_child raises: a child with this character exists already.
AddChildRaises(node, char) == char \in Range(node.children)

\* add_child: the new node is stored under its character.
add_child(t, path, char) ==
    (Append(path, char) :> NewNode(char))
        @@ [t EXCEPT ![path] = [@ EXCEPT !.children = Append(@, char)]]

RECURSIVE Descend(_, _, _)
\* The loop of lines 271-275 from character k of the variation on; the
\* result is the trie and whether add_child raised.
Descend(t, variation, k) ==
    IF k > Len(variation)
    THEN [trie |-> t, raised |-> FALSE]
    ELSE LET path == SubSeq(variation, 1, k - 1)
             char == variation[k]
         IN  IF NotInChildren(t[path], char)
             THEN IF AddChildRaises(t[path], char)
                  THEN [trie |-> t, raised |-> TRUE]
                  ELSE Descend(add_child(t, path, char), variation, k + 1)
             ELSE Descend(t, variation, k + 1)

\* self.commands.index(command): the first position holding an equal
\* command, counted from 0.
IndexOf(commands, command) ==
    (CHOOSE k \in 1..Len(commands) :
        /\ commands[k] = command
        /\ \A m \in 1..(k-1) : commands[m] # command) - 1

\* The index stored on the final node of a variation of commands[i].
command_index_of(commands, i) == IndexOf(commands, commands[i])

\* Lines 277-279 with the index counted from 1.
MarkTerminalOneBased(t, variation, index) ==
    [t EXCEPT ![variation] =
        [@ EXCEPT !.terminal = TRUE, !.command_index = Some(index + 1)]]

\* Lines 277-279: the final node becomes terminal and takes the index.
MarkTerminal(t, variation, index) ==
    [t EXCEPT ![variation] =
        [@ EXCEPT !.terminal = TRUE, !.command_index = Some(index)]]

(***************************************************************************)
(* The trie built in one piece, and the figures computed from it.          *)
(***************************************************************************)
\* The variations in the order the expander returns them.
GeneratedOrder(variations) == [k \in 1..Len(variations) |-> k]

RECURSIVE InsertVariations(_, _, _, _, _)
\* The loop of lines 269-279 over the variations, taken in the order given
\* (order[k] is the position of the k-th variation inserted), from k on.
InsertVariations(t, variations, order, k, index) ==
    IF k > Len(order)
    THEN t
    ELSE LET variation == variations[order[k]]
             walked == Descend(t, variation, 1)
         IN  IF walked.raised
             THEN walked.trie
             ELSE InsertVariations(MarkTerminal(walked.trie, variation, index),
                                   variations, order, k + 1, index)

RECURSIVE InsertCommands(_, _, _, _)
\* The loop of lines 256-257 from command i on; orders[i] is the order in
\* which the variations of commands[i] are inserted.
InsertCommands(t, commands, orders, i) ==
    IF i > Len(commands)
    THEN t
    ELSE InsertCommands(
             InsertVariations(t, generate_command_variations(commands[i].syntax),
                              orders[i], 1, command_index_of(commands, i)),
             commands, orders, i + 1)

\* SCPITrie(commands).
BuildTrie(commands) ==
    InsertCommands(RootOnly, commands,
                   [i \in 1..Len(commands) |->
                       GeneratedOrder(generate_command_variations(commands[i].syntax))],
                   1)

\* bool(param.choices) at lines 501 and 541.
HasChoices(param) == ChoicesTruthy(param.choices)

\* Lines 511-549: the descriptor of one parameter; the choices are those of
\* the array command_{i}_param_{j}_choices, or nullptr (no choices).
ParameterDescriptor(param) ==
    [type |-> param.type,
     choice_count |-> IF HasChoices(param) THEN Len(param.choices.items) ELSE 0,
     choices |-> IF HasChoices(param) THEN param.choices.items ELSE <<>>]

RECURSIVE generate_parameter_descriptors(_, _)
\* Lines 508-550 from command i on: one array command_{i}_params for every
\* command with parameters (index numbers the command from 0).
generate_parameter_descriptors(commands, i) ==
    IF i > Len(commands) THEN <<>>
    ELSE (IF commands[i].parameters # <<>>
          THEN <<[index |-> i - 1,
                  descriptors |->
                      [j \in 1..Len(commands[i].parameters) |->
                          ParameterDescriptor(commands[i].parameters[j])]]>>
          ELSE <<>>)
         \o generate_parameter_descriptors(commands, i + 1)

\* Line 571 counting a parameter list as one parameter.
ParamCountOne(command) == IF command.parameters # <<>> THEN 1 ELSE 0

\* Line 571: len(command.parameters) if command.parameters else 0.
ParamCount(command) ==
    IF command.parameters # <<>> THEN Len(command.parameters) ELSE 0

\* Lines 565-580: the record of commands[i]; a reference is the set of the
\* one thing referred to, and nullptr the empty set (command_{i}_params is
\* named by its number i, counted from 0).
CommandRecord(commands, i) ==
    [handler_ref |-> IF commands[i].handler # None
                     THEN {commands[i].handler} ELSE {},
     param_count |-> ParamCount(commands[i]),
     param_ref |-> IF commands[i].parameters # <<>> THEN Some(i - 1) ELSE NoIndex]

RECURSIVE MaxParamCount(_, _, _)
\* Lines 561-572: max_param_count after the loop from command i on.
MaxParamCount(commands, i, max_param_count) ==
    IF i > Len(commands) THEN max_param_count
    ELSE LET param_count == ParamCount(commands[i])
         IN  MaxParamCount(commands, i + 1,
                           IF param_count > max_param_count
                           THEN param_count ELSE max_param_count)

RECURSIVE TallyNode(_, _)
RECURSIVE TallyChildrenFrom(_, _, _)
\* count_nodes_and_arrays with line 613 counting an array for every node,
\* with or without children.
TallyNodeArrayAlways(t, path) ==
    <<"node", "array">>
        \o [k \in 1..Len(t[path].children) |-> "child"]
        \o TallyChildrenFrom(t, path, 1)

\* The three counters of count_nodes_and_arrays are kept as tallies, one
\* mark for every unit added: "node" for node_count = 1, "array" for
\* array_count = 1 (a node with children), "child" for each of the
\* len(node.children) units of total_children; the marks of the children
\* follow, in the order of the children dict.
TallyNode(t, path) ==
    <<"node">>
        \o (IF t[path].children # <<>> THEN <<"array">> ELSE <<>>)
        \o [k \in 1..Len(t[path].children) |-> "child"]
        \o TallyChildrenFrom(t, path, 1)

\* The loop of lines 616-621 from the k-th child on.
TallyChildrenFrom(t, path, k) ==
    IF k > Len(t[path].children)
    THEN <<>>
    ELSE TallyNode(t, Append(path, t[path].children[k]))
            \o TallyChildrenFrom(t, path, k + 1)

\* The number of marks of one kind.
Marks(tally, kind) == Len(SelectSeq(tally, LAMBDA mark : mark = kind))

\* count_nodes_and_arrays(node) for the node at path.
count_nodes_and_arrays(t, path) ==
    LET tally == TallyNode(t, path)
    IN  [node_count |-> Marks(tally, "node"),
         array_count |-> Marks(tally, "array"),
         total_children |-> Marks(tally, "child")]

\* The sizes in bytes of a node, a parameter descriptor and a command, and
\* the estimate of the state of the interpreter.
trie_node_size == 8
param_descriptor_size == 4 + 4 + 4 + 4
command_size == 12
runtime_memory == 64

RECURSIVE SumOver(_, _)
\* sum(f): the sum of a sequence of numbers.
SumOver(f, k) == IF k > Len(f) THEN 0 ELSE f[k] + SumOver(f, k + 1)

\* Line 665 counting a pointer for a choice in place of its characters.
ChoiceBytesPointer(choice) == 4

\* Line 665: len(choice) + 1, the characters and the null terminator.
ChoiceBytes(choice) == Len(choice) + 1

\* Lines 660-665 for one parameter (choices that pass validation are a
\* list).
ParamStringMemory(param) ==
    IF HasChoices(param)
    THEN SumOver([k \in 1..Len(param.choices.items) |->
                    ChoiceBytes(param.choices.items[k])], 1)
    ELSE 0

\* Lines 658-665: string_memory.
StringMemory(commands) ==
    SumOver([i \in 1..Len(commands) |->
                SumOver([j \in 1..Len(commands[i].parameters) |->
                            ParamStringMemory(commands[i].parameters[j])], 1)], 1)

\* calculate_memory_usage: trie_stats and memory_breakdown (the two
\* percentages are quotients of total_code and runtime_sram by constants).
calculate_memory_usage(t, d) ==
    LET counted == count_nodes_and_arrays(t, <<>>)
        trie_nodes_memory == counted.node_count * trie_node_size
        total_param_descriptors ==
            SumOver([i \in 1..Len(d.commands) |-> ParamCount(d.commands[i])], 1)
        param_descriptors_memory == total_param_descriptors * param_descriptor_size
        commands_memory == Len(d.commands) * command_size
        string_memory == StringMemory(d.commands)
    IN  [total_nodes |-> counted.node_count,
         total_arrays |-> counted.array_count,
         total_children |-> counted.total_children,
         node_size_bytes |-> trie_node_size,
         trie_nodes |-> trie_nodes_memory,
         param_descriptors |-> param_descriptors_memory,
         commands |-> commands_memory,
         string_literals |-> string_memory,
         total_code |-> trie_nodes_memory + param_descriptors_memory
                            + commands_memory + string_memory,
         runtime_sram |-> runtime_memory]

RECURSIVE get_terminal_depths(_, _, _)
RECURSIVE ChildDepthsFrom(_, _, _, _)
\* get_terminal_depths(node, depth) for the node at path.
get_terminal_depths(t, path, depth) ==
    (IF t[path].terminal THEN <<depth>> ELSE <<>>)
        \o ChildDepthsFrom(t, path, depth, 1)

\* The loop of lines 732-733 from the k-th child on.
ChildDepthsFrom(t, path, depth, k) ==
    IF k > Len(t[path].children)
    THEN <<>>
    ELSE get_terminal_depths(t, Append(path, t[path].children[k]), depth + 1)
            \o ChildDepthsFrom(t, path, depth, k + 1)

\* get_terminal_depths with the root at depth 1.
TerminalDepthsFromOne(t) == get_terminal_depths(t, <<>>, 1)

\* get_terminal_depths(self.root).
TerminalDepths(t) == get_terminal_depths(t, <<>>, 0)

\* calculate_average_lookup_depth: the quotient as numerator and
\* denominator; 0.0 is 0 over 1.
calculate_average_lookup_depth(t) ==
    LET terminal_depths == TerminalDepths(t)
    IN  IF terminal_depths # <<>>
        THEN [num |-> SumOver(terminal_depths, 1), den |-> Len(terminal_depths)]
        ELSE [num |-> 0, den |-> 1]

(***************************************************************************)
(* The emitted node tables.                                                *)
(***************************************************************************)
DigitSeq == <<"0","1","2","3","4","5","6","7","8","9">>

\* The position of a character in a sequence that holds it once.
PositionIn(seq, c) == CHOOSE k \in 1..Len(seq) : seq[k] = c

\* ord(char) for the characters of a syntax.
ord ==
    [c \in UpperLetterSet \cup LowerLetterSet \cup Digits \cup {"*", ":", "?", "_"} |->
        IF c \in UpperLetterSet THEN 64 + PositionIn(UpperLetters, c)
        ELSE IF c \in LowerLetterSet THEN 96 + PositionIn(LowerLetters, c)
        ELSE IF c \in Digits THEN 47 + PositionIn(DigitSeq, c)
        ELSE IF c = "*" THEN 42
        ELSE IF c = ":" THEN 58
        ELSE IF c = "?" THEN 63
        ELSE 95]

RECURSIVE Decimal(_)
\* str(n) for a natural number n.
Decimal(n) ==
    IF n < 10 THEN <<DigitSeq[n + 1]>>
    ELSE Append(Decimal(n \div 10), DigitSeq[(n % 10) + 1])

\* Lines 379-380 without the sort: the children in the order of the dict.
UnsortedChildren(children) == children

RECURSIVE SortedChildren(_)
\* Lines 379-380: sorted(node.children.values(), key=lambda n: n.character),
\* the characters of the children in increasing order.
SortedChildren(children) ==
    IF children = <<>> THEN <<>>
    ELSE LET least == CHOOSE c \in Range(children) :
                          \A d \in Range(children) : ord[c] <= ord[d]
         IN  <<least>> \o SortedChildren(SelectSeq(children, LAMBDA c : c # least))

\* char.isalnum().
IsAlnum(c) == IsUpperLetter(c) \/ IsLowerLetter(c) \/ c \in Digits

\* Lines 446-453 with the code point written without the underscore
\* before it.
SafeCharBareOrd(char) ==
    IF IsAlnum(char) THEN <<char>>
    ELSE IF char = "*" THEN <<"_","s","t","a","r">>
    ELSE IF char = ":" THEN <<"_","c","o","l","o","n">>
    ELSE IF char = "?" THEN <<"_","q","u","e","s","t","i","o","n">>
    ELSE Decimal(ord[char])

\* Lines 446-453: the text that stands for one character in a name.
SafeChar(char) ==
    IF IsAlnum(char) THEN <<char>>
    ELSE IF char = "*" THEN <<"_","s","t","a","r">>
    ELSE IF char = ":" THEN <<"_","c","o","l","o","n">>
    ELSE IF char = "?" THEN <<"_","q","u","e","s","t","i","o","n">>
    ELSE <<"_">> \o Decimal(ord[char])

\* SCPITrie._generate_node_name.
generate_node_name(node_path) ==
    IF node_path = <<>>
    THEN <<"_","r","o","o","t">>
    ELSE <<"_","n","o","d","e","_">>
            \o Flatten([k \in 1..Len(node_path) |-> SafeChar(node_path[k])])

\* The text nullptr.
nullptr == <<"n","u","l","l","p","t","r">>

\* Lines 408-432: the text of the node at node_path, as the record of its
\* fields; comment is the syntax of the trailing comment, if there is one.
\* child_names holds one text for every child, so that len(child_names) is
\* the number of children.
node_def(t, commands, node_path) ==
    [character |-> t[node_path].character,
     terminal |-> t[node_path].terminal,
     child_count |-> Len(t[node_path].children),
     children_ref |-> IF t[node_path].children # <<>>
                      THEN generate_node_name(node_path)
                              \o <<"_","c","h","i","l","d","r","e","n">>
                      ELSE nullptr,
     cmd_index |-> IF t[node_path].command_index # NoIndex
                   THEN CHOOSE i \in t[node_path].command_index : TRUE
                   ELSE 0,
     comment |-> IF t[node_path].terminal /\ t[node_path].command_index # NoIndex
                 THEN {commands[(CHOOSE i \in t[node_path].command_index : TRUE) + 1].syntax}
                 ELSE {}]

\* Lines 388-404: the children array of the node at node_path: its name and
\* the texts of the children in sorted order; node_path (not part of the
\* text) is the node whose children it lists.
children_def(t, commands, node_path) ==
    [name |-> generate_node_name(node_path)
                 \o <<"_","c","h","i","l","d","r","e","n">>,
     node_path |-> node_path,
     entries |-> [k \in 1..Len(t[node_path].children) |->
                    node_def(t, commands,
                             Append(node_path, SortedChildren(t[node_path].children)[k]))]]

RECURSIVE collect_node_definitions(_, _, _)
RECURSIVE CollectChildrenFrom(_, _, _, _)
\* _collect_node_definitions with line 405 before the loop over the
\* children: the array of a node is put on the list before those of its
\* descendants.
collect_own_first(t, commands, node_path) ==
    (IF t[node_path].children # <<>>
     THEN <<children_def(t, commands, node_path)>> ELSE <<>>)
        \o CollectChildrenFrom(t, commands, node_path, 1)

\* SCPITrie._collect_node_definitions for the node at node_path: what the
\* call appends to definitions, first what the calls for the children
\* append, then (line 405) the children array of the node itself if it has
\* children.
collect_node_definitions(t, commands, node_path) ==
    CollectChildrenFrom(t, commands, node_path, 1)
        \o (IF t[node_path].children # <<>>
            THEN <<children_def(t, commands, node_path)>> ELSE <<>>)

\* The loop of lines 381-385 from the k-th sorted child on.
CollectChildrenFrom(t, commands, node_path, k) ==
    IF k > Len(t[node_path].children)
    THEN <<>>
    ELSE collect_node_definitions(
             t, commands,
             Append(node_path, SortedChildren(t[node_path].children)[k]))
            \o CollectChildrenFrom(t, commands, node_path, k + 1)

\* _generate_trie_structure: the children arrays in the order they are
\* written, and the root node.
generate_trie_structure(t, commands) ==
    [node_definitions |-> collect_node_definitions(t, commands, <<>>),
     root_def |-> node_def(t, commands, <<>>)]

(***************************************************************************)
(* The run (the __main__ block).                                           *)
(***************************************************************************)
\* The trie has been built: the loop over the commands has ended.
Built == pc \in {"emit", "write", "done"} \/ (pc = "failed" /\ error = "OSError")

\* The trie object exists.
HasTrie == DOMAIN trie # {}

\* cpp_code before generate_cpp_code has returned.
NoCode ==
    [generated |-> FALSE, declarations |-> <<>>,
     memory_usage |-> calculate_memory_usage(RootOnly, [commands |-> <<>>]),
     average_lookup_depth |-> calculate_average_lookup_depth(RootOnly),
     param_arrays |-> <<>>,
     trie_structure |-> generate_trie_structure(RootOnly, <<>>),
     commands |-> <<>>, command_count |-> 0, max_parameter_count |-> 0]

\* The destination before it is opened for writing.
NotWritten == [opened |-> FALSE, content |-> NoCode]

RECURSIVE print_node(_, _)
RECURSIVE PrintChildrenFrom(_, _, _)
\* _print_node(node, prefix) of __str__ for the node at path: one entry for
\* a terminal node with a command index (the prefix and the index of the
\* command printed under it), then the entries of the children in the order
\* of the children dict.
print_node(t, path) ==
    (IF t[path].terminal /\ t[path].command_index # NoIndex
     THEN <<[prefix |-> path, command_index |-> t[path].command_index]>>
     ELSE <<>>)
        \o PrintChildrenFrom(t, path, 1)

\* The loop of lines 337-338 from the k-th child on.
PrintChildrenFrom(t, path, k) ==
    IF k > Len(t[path].children)
    THEN <<>>
    ELSE print_node(t, Append(path, t[path].children[k]))
            \o PrintChildrenFrom(t, path, k + 1)

RECURSIVE count_nodes(_, _)
RECURSIVE CountNodesFrom(_, _, _)
\* count_nodes(node) of the information mode for the node at path.
count_nodes(t, path) == 1 + CountNodesFrom(t, path, 1)

\* The loop of lines 780-781 from the k-th child on.
CountNodesFrom(t, path, k) ==
    IF k > Len(t[path].children)
    THEN 0
    ELSE count_nodes(t, Append(path, t[path].children[k]))
            + CountNodesFrom(t, path, k + 1)

RECURSIVE count_terminal_nodes(_, _)
RECURSIVE CountTerminalNodesFrom(_, _, _)
\* count_terminal_nodes(node) for the node at path.
count_terminal_nodes(t, path) ==
    (IF t[path].terminal THEN 1 ELSE 0) + CountTerminalNodesFrom(t, path, 1)

\* The loop of lines 790-791 from the k-th child on.
CountTerminalNodesFrom(t, path, k) ==
    IF k > Len(t[path].children)
    THEN 0
    ELSE count_terminal_nodes(t, Append(path, t[path].children[k]))
            + CountTerminalNodesFrom(t, path, k + 1)

RECURSIVE get_all_paths(_, _)
RECURSIVE AllPathsFrom(_, _, _)
\* get_all_paths(node, current_path) for the node at current_path.
get_all_paths(t, current_path) ==
    (IF t[current_path].terminal THEN <<current_path>> ELSE <<>>)
        \o AllPathsFrom(t, current_path, 1)

\* The loop of lines 833-835 from the k-th child on.
AllPathsFrom(t, current_path, k) ==
    IF k > Len(t[current_path].children)
    THEN <<>>
    ELSE get_all_paths(t, Append(current_path, t[current_path].children[k]))
            \o AllPathsFrom(t, current_path, k + 1)

\* a < b for two strings, as Python compares them: by the code points of
\* the first character that differs, a proper prefix before the longer.
StrLess(a, b) ==
    \E k \in 1..(Len(b)) :
        /\ k <= Len(a) + 1
        /\ SubSeq(a, 1, k - 1) = SubSeq(b, 1, k - 1)
        /\ (k = Len(a) + 1 \/ ord[a[k]] < ord[b[k]])

RECURSIVE sorted(_)
\* sorted(all_paths) at line 839 (the paths are distinct).
sorted(all_paths) ==
    IF all_paths = <<>> THEN <<>>
    ELSE LET least == CHOOSE a \in Range(all_paths) :
                          \A b \in Range(all_paths) : a = b \/ StrLess(a, b)
         IN  <<least>> \o sorted(SelectSeq(all_paths, LAMBDA a : a # least))

\* Nothing has been printed.
NothingPrinted ==
    [printed |-> FALSE, trie_text |-> <<>>, total_commands |-> 0,
     namespace |-> <<>>, class_name |-> <<>>, trie_total_nodes |-> 0,
     terminal_nodes |-> 0,
     usage |-> calculate_memory_usage(RootOnly, [commands |-> <<>>]),
     average_lookup_depth |-> calculate_average_lookup_depth(RootOnly),
     paths |-> <<>>, total_variations |-> 0]

Init ==
    /\ definition \in Definitions
    /\ info \in BOOLEAN
    /\ pc = "load"
    /\ error = None
    /\ trie = NoTrie
    /\ cmd_i = 0
    /\ var_j = 0
    /\ cpp_code = NoCode
    /\ output_file = NotWritten
    /\ stdout = NothingPrinted

\* Lines 757-760: the definition is loaded and validated; a rule that
\* fails raises ValueError and ends the run.
Validate ==
    /\ pc = "load"
    /\ IF DefinitionValid(definition)
       THEN pc' = "construct" /\ error' = error
       ELSE pc' = "failed" /\ error' = "ValueError"
    /\ UNCHANGED <<definition, info, trie, cmd_i, var_j, cpp_code, output_file,
                   stdout>>

\* Lines 253-257: the root is created and the loop over the commands starts.
SCPITrie_init ==
    /\ pc = "construct"
    /\ trie' = RootOnly
    /\ IF definition.commands = <<>>
       THEN pc' = "emit" /\ cmd_i' = 0 /\ var_j' = 0
       ELSE pc' = "build" /\ cmd_i' = 1 /\ var_j' = 1
    /\ UNCHANGED <<definition, info, error, cpp_code, output_file, stdout>>

\* Lines 269-279, one pass of the loop: variation var_j of command cmd_i is
\* inserted; after the last variation of the last command the trie is built.
insert_command ==
    /\ pc = "build"
    /\ LET commands == definition.commands
           variations == generate_command_variations(commands[cmd_i].syntax)
           variation == variations[var_j]
           walked == Descend(trie, variation, 1)
       IN  IF walked.raised
           THEN /\ pc' = "failed"
                /\ error' = "ValueError"
                /\ trie' = walked.trie
                /\ UNCHANGED <<cmd_i, var_j>>
           ELSE /\ trie' = MarkTerminal(walked.trie, variation,
                                        command_index_of(commands, cmd_i))
                /\ error' = error
                /\ IF var_j < Len(variations)
                   THEN var_j' = var_j + 1 /\ cmd_i' = cmd_i /\ pc' = pc
                   ELSE IF cmd_i < Len(commands)
                        THEN var_j' = 1 /\ cmd_i' = cmd_i + 1 /\ pc' = pc
                        ELSE var_j' = var_j /\ cmd_i' = cmd_i /\ pc' = "emit"
    /\ UNCHANGED <<definition, info, cpp_code, output_file, stdout>>

\* The handler methods declared by _generate_class_declaration, in order.
RECURSIVE HandlerDeclarations(_)
HandlerDeclarations(commands) ==
    IF commands = <<>> THEN <<>>
    ELSE (IF Head(commands).handler # None
          THEN <<Head(commands).handler>> ELSE <<>>)
         \o HandlerDeclarations(Tail(commands))

\* Lines 764-842: the information is printed; no file is written.
print_info ==
    /\ pc = "emit"
    /\ info
    /\ stdout' = [printed |-> TRUE,
                  trie_text |-> print_node(trie, <<>>),
                  total_commands |-> Len(definition.commands),
                  namespace |-> definition.namespace,
                  class_name |-> definition.class_name,
                  trie_total_nodes |-> count_nodes(trie, <<>>),
                  terminal_nodes |-> count_terminal_nodes(trie, <<>>),
                  usage |-> calculate_memory_usage(trie, definition),
                  average_lookup_depth |-> calculate_average_lookup_depth(trie),
                  paths |-> sorted(get_all_paths(trie, <<>>)),
                  total_variations |-> Len(get_all_paths(trie, <<>>))]
    /\ pc' = "done"
    /\ UNCHANGED <<definition, info, error, trie, cmd_i, var_j, cpp_code, output_file>>

\* Line 846: the C++ code is generated in memory.
generate_cpp_code ==
    /\ pc = "emit"
    /\ ~info
    /\ cpp_code' = [generated |-> TRUE,
                    declarations |-> HandlerDeclarations(definition.commands),
                    memory_usage |-> calculate_memory_usage(trie, definition),
                    average_lookup_depth |-> calculate_average_lookup_depth(trie),
                    param_arrays |->
                        generate_parameter_descriptors(definition.commands, 1),
                    trie_structure |->
                        generate_trie_structure(trie, definition.commands),
                    commands |->
                        [i \in 1..Len(definition.commands) |->
                            CommandRecord(definition.commands, i)],
                    command_count |-> Len(definition.commands),
                    max_parameter_count |->
                        MaxParamCount(definition.commands, 1, 0)]
    /\ pc' = "write"
    /\ UNCHANGED <<definition, info, error, trie, cmd_i, var_j, output_file,
                   stdout>>

\* The destination is opened and written before the code is generated.
write_output_early ==
    /\ pc \in {"load", "construct", "build", "emit", "write"}
    /\ ~info
    /\ output_file' = [opened |-> TRUE, content |-> cpp_code]
    /\ pc' = IF pc = "write" THEN "done" ELSE pc
    /\ UNCHANGED <<definition, info, error, trie, cmd_i, var_j, cpp_code, stdout>>

\* Lines 847-848: the destination is opened for writing and the code is
\* written to it.
write_output ==
    /\ pc = "write"
    /\ output_file' = [opened |-> TRUE, content |-> cpp_code]
    /\ pc' = "done"
    /\ UNCHANGED <<definition, info, error, trie, cmd_i, var_j, cpp_code, stdout>>

\* Line 847: the destination cannot be opened; OSError ends the run.
open_fails ==
    /\ pc = "write"
    /\ pc' = "failed"
    /\ error' = "OSError"
    /\ UNCHANGED <<definition, info, trie, cmd_i, var_j, cpp_code, output_file,
                   stdout>>

Next ==
    \/ Validate
    \/ SCPITrie_init
    \/ insert_command
    \/ print_info
    \/ generate_cpp_code
    \/ write_output
    \/ open_fails

Spec == Init /\ [][Next]_vars

(***************************************************************************)
(* Definitions shared by the properties.                                   *)
(***************************************************************************)
Commands == definition.commands

\* The variations of a command, as a set.
VariationSet(c) == Range(generate_command_variations(c.syntax))

\* The variations of all commands.
AllVariations == UNION {VariationSet(Commands[i]) : i \in 1..Len(Commands)}

RECURSIVE WalkFrom(_, _, _)
\* Walking s from the root one character at a time, from character k on,
\* finds a child at every step.
WalkFrom(t, s, k) ==
    IF k > Len(s) THEN TRUE
    ELSE /\ SubSeq(s, 1, k - 1) \in DOMAIN t
         /\ s[k] \in Range(t[SubSeq(s, 1, k - 1)].children)
         /\ Append(SubSeq(s, 1, k - 1), s[k]) \in DOMAIN t
         /\ WalkFrom(t, s, k + 1)

\* The walk of s from the root ends on a node (the node named s).
Reaches(t, s) == WalkFrom(t, s, 1)

\* The walk of s ends on a terminal node.
EndsOnTerminal(t, s) == Reaches(t, s) /\ t[s].terminal

\* Two commands at different positions share a variation.
SharedVariation(i, j) ==
    VariationSet(Commands[i]) \cap VariationSet(Commands[j]) # {}

\* The variation sets of the commands are pairwise disjoint.
PairwiseDisjoint ==
    \A i \in 1..Len(Commands) : \A j \in 1..Len(Commands) :
        i # j => ~SharedVariation(i, j)

\* v is a proper prefix of w.
ProperPrefix(v, w) == Len(v) < Len(w) /\ SubSeq(w, 1, Len(v)) = v

\* A command with this syntax is in the definition.
HasSyntax(s) == \E i \in 1..Len(Commands) : Commands[i].syntax = s

(***************************************************************************)
(* C1.  Round trip: once the trie of a validated definition is built, every *)
(* variation of the command at position i, walked from the root, ends on a *)
(* terminal node whose command_index is i (counted from 0).                *)
(***************************************************************************)
RoundTrip ==
    Built =>
        \A i \in 1..Len(Commands) : \A v \in VariationSet(Commands[i]) :
            /\ EndsOnTerminal(trie, v)
            /\ trie[v].command_index = Some(i - 1)

(***************************************************************************)
(* C2.  Two commands with different syntaxes that share a variation make   *)
(* the build fail: the run never gets a built trie.                        *)
(***************************************************************************)
AmbiguityIsFatal ==
    (\E i \in 1..Len(Commands) : \E j \in 1..Len(Commands) :
        /\ i # j
        /\ Commands[i].syntax # Commands[j].syntax
        /\ SharedVariation(i, j))
    => ~Built

(***************************************************************************)
(* C3.  A terminal node keeps the command index it was given: no step of   *)
(* the construction replaces it by another index.                          *)
(***************************************************************************)
TerminalClaimedOnce ==
    [][pc = "build" =>
          \A p \in DOMAIN trie :
              (trie[p].terminal /\ trie[p].command_index # NoIndex)
                  => trie'[p].command_index = trie[p].command_index]_vars

(***************************************************************************)
(* C4.  With pairwise disjoint variation sets the construction raises      *)
(* nothing and runs to its end; no node gets two children with one         *)
(* character; and where a variation of one command is a proper prefix of a *)
(* variation of another, the shared node is terminal for the shorter       *)
(* command and keeps a child towards the longer one.                       *)
(***************************************************************************)
DisjointCompiles ==
    (HasTrie /\ PairwiseDisjoint) =>
        /\ ~(pc = "failed" /\ error = "ValueError")
        /\ pc = "build" =>
              /\ cmd_i \in 1..Len(Commands)
              /\ var_j \in 1..Len(generate_command_variations(Commands[cmd_i].syntax))
        /\ \A p \in DOMAIN trie :
              Cardinality(Range(trie[p].children)) = Len(trie[p].children)
        /\ Built =>
              \A i \in 1..Len(Commands) : \A j \in 1..Len(Commands) :
                  \A v \in VariationSet(Commands[i]) :
                      \A w \in VariationSet(Commands[j]) :
                          ProperPrefix(v, w) =>
                              /\ EndsOnTerminal(trie, v)
                              /\ trie[v].command_index = Some(i - 1)
                              /\ w[Len(v) + 1] \in Range(trie[v].children)
                              /\ EndsOnTerminal(trie, w)
                              /\ trie[w].command_index = Some(j - 1)

\* Reached: a built trie of two commands with disjoint variation sets, a
\* variation of the first being a proper prefix of a variation of the second.
DisjointCompilesWitness ==
    /\ Built
    /\ Len(Commands) = 2
    /\ PairwiseDisjoint
    /\ \E v \in VariationSet(Commands[1]) : \E w \in VariationSet(Commands[2]) :
          ProperPrefix(v, w) /\ trie[v].terminal /\ trie[v].children # <<>>

(***************************************************************************)
(* C5.  The expander returns exactly the uppercase product of the          *)
(* segments' forms: for a syntax that passes validation, the result is the *)
(* set of strings obtained by deleting the lowercase suffix of any subset  *)
(* of the k segments that have one and uppercasing; it has 2^k strings,    *)
(* pairwise distinct.                                                      *)
(***************************************************************************)
\* The number of the segment position p of s lies in.
SegmentOf(s, p) == Cardinality({q \in 1..(p-1) : IsSpecial(s[q])})

\* Position p lies in the lowercase suffix of its segment: a lowercase
\* letter occurs in the segment at or before p.
InSuffix(s, p) ==
    /\ ~IsSpecial(s[p])
    /\ \E q \in 1..p :
          /\ IsLowerLetter(s[q])
          /\ \A m \in q..p : ~IsSpecial(s[m])

\* The segments of s that have a lowercase suffix.
SuffixedSegments(s) == {SegmentOf(s, p) : p \in {q \in 1..Len(s) : InSuffix(s, q)}}

RECURSIVE Abbreviate(_, _, _)
\* s from position p on, uppercased, without the suffixes of the segments in D.
Abbreviate(s, D, p) ==
    IF p > Len(s) THEN <<>>
    ELSE (IF InSuffix(s, p) /\ SegmentOf(s, p) \in D
          THEN <<>> ELSE <<UpperChar(s[p])>>)
         \o Abbreviate(s, D, p + 1)

\* The accepted forms of s.
ExpectedVariations(s) == {Abbreviate(s, D, 1) : D \in SUBSET SuffixedSegments(s)}

ExpanderIsProduct ==
    /\ \A i \in 1..Len(Commands) :
          SyntaxMatches(Commands[i].syntax) =>
              LET variations == generate_command_variations(Commands[i].syntax)
                  k == Cardinality(SuffixedSegments(Commands[i].syntax))
              IN  /\ Range(variations) = ExpectedVariations(Commands[i].syntax)
                  /\ Len(variations) = 2^k
                  /\ Cardinality(Range(variations)) = 2^k
    /\ HasSyntax(Syntax_LED_STATe_Q) =>
          Range(generate_command_variations(Syntax_LED_STATe_Q))
              = {<<"L","E","D",":","S","T","A","T","?">>,
                 <<"L","E","D",":","S","T","A","T","E","?">>}
    /\ HasSyntax(Syntax_IDN_Q) =>
          Range(generate_command_variations(Syntax_IDN_Q)) = {Syntax_IDN_Q}

\* Reached: the fourth variation of a command with two suffixed segments
\* is being inserted.
ExpanderIsProductWitness ==
    /\ pc = "build"
    /\ Commands[cmd_i].syntax = Syntax_SYSTem_ERRor_Q
    /\ var_j = 4
    /\ Cardinality(SuffixedSegments(Commands[cmd_i].syntax)) = 2

(***************************************************************************)
(* C6.  In the built trie a node is terminal exactly when its path is a    *)
(* variation of some command, and the children lists name exactly the      *)
(* nodes; so a string that is no variation never ends on a terminal node.  *)
(***************************************************************************)
TerminalIffVariation ==
    /\ HasTrie =>
          \A p \in DOMAIN trie :
              /\ Reaches(trie, p)
              /\ trie[p].terminal => p \in AllVariations
    /\ Built =>
          /\ \A p \in DOMAIN trie : trie[p].terminal <=> p \in AllVariations
          /\ \A v \in AllVariations : EndsOnTerminal(trie, v)
          /\ Commands = <<[syntax |-> Syntax_LED_STATe_Q, handler |-> "h",
                           response |-> None, parameters |-> NoParameters]>> =>
                /\ ~EndsOnTerminal(trie, <<"L","E","D",":","S","T","A","T","X","?">>)
                /\ Reaches(trie, <<"L","E","D",":","S","T","A">>)
                /\ ~EndsOnTerminal(trie, <<"L","E","D",":","S","T","A">>)

\* Reached: the built trie of LED:STATe? alone, LED:STAT? terminal and the
\* prefix LED:STA a node that is not.
TerminalIffVariationWitness ==
    /\ Built
    /\ Commands = <<[syntax |-> Syntax_LED_STATe_Q, handler |-> "h",
                     response |-> None, parameters |-> NoParameters]>>
    /\ trie[<<"L","E","D",":","S","T","A","T","?">>].terminal
    /\ ~trie[<<"L","E","D",":","S","T","A">>].terminal

(***************************************************************************)
(* C7.  A definition with the same syntax string in two commands fails     *)
(* validation: no trie is constructed for it.                              *)
(***************************************************************************)
DuplicateSyntaxRejected ==
    (\E i \in 1..Len(Commands) : \E j \in 1..Len(Commands) :
        i # j /\ Commands[i].syntax = Commands[j].syntax)
    => (pc \in {"load", "failed"} /\ ~HasTrie)

(***************************************************************************)
(* C8.  MEAS:VOLT? and MEAS:VOLTage? in one definition.  As claimed: the   *)
(* two variation sets are disjoint.                                        *)
(***************************************************************************)
Form_MEAS_VOLT_Q == Syntax_MEAS_VOLT_Q
Form_MEAS_VOLTAGE_Q == <<"M","E","A","S",":","V","O","L","T","A","G","E","?">>

VoltPairDisjoint ==
    (Built /\ HasSyntax(Syntax_MEAS_VOLT_Q) /\ HasSyntax(Syntax_MEAS_VOLTage_Q)) =>
        Range(generate_command_variations(Syntax_MEAS_VOLT_Q))
            \cap Range(generate_command_variations(Syntax_MEAS_VOLTage_Q)) = {}

\* As amended: the definition passes validation, the abbreviated form
\* MEAS:VOLT? of MEAS:VOLTage? is the one variation of MEAS:VOLT?, and the
\* full form MEAS:VOLTAGE? alone is distinct.
VoltPairOverlaps ==
    (pc # "load" /\ HasSyntax(Syntax_MEAS_VOLT_Q) /\ HasSyntax(Syntax_MEAS_VOLTage_Q)) =>
        /\ DefinitionValid(definition)
        /\ pc # "failed" \/ error # "ValueError"
        /\ Range(generate_command_variations(Syntax_MEAS_VOLT_Q)) = {Form_MEAS_VOLT_Q}
        /\ Range(generate_command_variations(Syntax_MEAS_VOLTage_Q))
              = {Form_MEAS_VOLT_Q, Form_MEAS_VOLTAGE_Q}
        /\ Built => /\ EndsOnTerminal(trie, Form_MEAS_VOLT_Q)
                    /\ EndsOnTerminal(trie, Form_MEAS_VOLTAGE_Q)

\* Reached: the built trie of the two commands.
VoltPairOverlapsWitness ==
    /\ Built
    /\ Len(Commands) = 2
    /\ Commands[1].syntax = Syntax_MEAS_VOLT_Q
    /\ Commands[2].syntax = Syntax_MEAS_VOLTage_Q
    /\ trie[Form_MEAS_VOLT_Q].terminal

(***************************************************************************)
(* The matcher of the runtime interpreter, as the specification describes  *)
(* it: the input is normalised to uppercase and walked from the root; the  *)
(* match is the terminal node the walk ends on.                            *)
(***************************************************************************)
\* The canonical form of each lowercase letter.
CanonicalOf ==
    [c \in LowerLetterSet |->
        UpperLetters[CHOOSE n \in 1..Len(LowerLetters) : LowerLetters[n] = c]]

\* The input in the canonical uppercase form.
MatchNormalize(input) ==
    [k \in 1..Len(input) |->
        IF input[k] \in LowerLetterSet THEN CanonicalOf[input[k]] ELSE input[k]]

\* The node the input resolves to: the set holding the path of the terminal
\* node, or the empty set when there is none.
Lookup(t, input) ==
    IF EndsOnTerminal(t, MatchNormalize(input))
    THEN {MatchNormalize(input)} ELSE {}

(***************************************************************************)
(* C9.  The trie stores uppercase only: no node and no child entry carries *)
(* a lowercase letter; and every casing of a variation resolves to the     *)
(* terminal node of its uppercase form.                                    *)
(***************************************************************************)
\* The lowercase letter of each uppercase letter.
LowerOf ==
    [c \in UpperLetterSet |->
        LowerLetters[CHOOSE n \in 1..Len(UpperLetters) : UpperLetters[n] = c]]

LowerCharOf(c) == IF IsUpperLetter(c) THEN LowerOf[c] ELSE c

LetterPositions(v) == {k \in 1..Len(v) : IsUpperLetter(v[k]) \/ IsLowerLetter(v[k])}

\* v with the letters at the positions in S in lowercase and the others in
\* uppercase.
Cased(v, S) ==
    [k \in 1..Len(v) |-> IF k \in S THEN LowerCharOf(v[k]) ELSE v[k]]

\* The positions of the letters that do not start a segment.
InnerLetters(v) ==
    {k \in LetterPositions(v) : k > 1 /\ ~IsSpecial(v[k-1])}

\* The casings of v that are tried.
Casings(v) ==
    IF Cardinality(LetterPositions(v)) <= MaxCasedLetters
    THEN {Cased(v, S) : S \in SUBSET LetterPositions(v)}
    ELSE {v, Cased(v, LetterPositions(v)), Cased(v, InnerLetters(v))}

CaseInsensitive ==
    /\ HasTrie =>
          \A p \in DOMAIN trie :
              /\ ~IsLowerLetter(trie[p].character)
              /\ \A k \in 1..Len(p) : ~IsLowerLetter(p[k])
              /\ \A k \in 1..Len(trie[p].children) : ~IsLowerLetter(trie[p].children[k])
    /\ Built =>
          \A v \in AllVariations : \A u \in Casings(v) :
              /\ Lookup(trie, u) = {v}
              /\ Lookup(trie, u) = Lookup(trie, v)
    /\ (Built /\ HasSyntax(Syntax_LED_STATe_Q)) =>
          /\ Lookup(trie, <<"l","e","d",":","s","t","a","t","?">>)
                = {<<"L","E","D",":","S","T","A","T","?">>}
          /\ Lookup(trie, <<"L","e","d",":","S","t","a","t","?">>)
                = {<<"L","E","D",":","S","T","A","T","?">>}
          /\ Lookup(trie, <<"L","E","D",":","S","T","A","T","?">>)
                = {<<"L","E","D",":","S","T","A","T","?">>}

\* Reached: a built trie holding LED:STATE?, the form whose last letter is
\* written in lowercase in the syntax.
CaseInsensitiveWitness ==
    /\ Built
    /\ HasSyntax(Syntax_LED_STATe_Q)
    /\ <<"L","E","D",":","S","T","A","T","E","?">> \in DOMAIN trie
    /\ trie[<<"L","E","D",":","S","T","A","T","E","?">>].terminal

(***************************************************************************)
(* C10.  Order of the run: a trie exists only for a definition that passed *)
(* validation; code is generated only from a completely built trie; the    *)
(* destination is opened only in output mode, after the code has been      *)
(* generated, and then holds exactly that code; a run that has raised      *)
(* leaves the destination unopened.                                        *)
(***************************************************************************)
PipelineOrder ==
    /\ HasTrie => DefinitionValid(definition)
    /\ pc \in {"construct", "build", "emit", "write", "done"} => DefinitionValid(definition)
    /\ cpp_code.generated =>
          /\ Built
          /\ ~info
          /\ \A v \in AllVariations : EndsOnTerminal(trie, v)
    /\ output_file.opened =>
          /\ pc = "done"
          /\ ~info
          /\ cpp_code.generated
          /\ output_file.content = cpp_code
    /\ pc = "failed" => ~output_file.opened
    /\ ~DefinitionValid(definition) => (~HasTrie /\ ~output_file.opened)

\* Reached: a run in output mode that ended with the destination written.
PipelineOrderWitness ==
    /\ pc = "done"
    /\ ~info
    /\ output_file.opened
    /\ output_file.content.generated

(***************************************************************************)
(* C11.  The emitted class declares exactly one method for every distinct  *)
(* handler value: no handler is declared twice, every handler of a command *)
(* is declared, and nothing else is.                                       *)
(***************************************************************************)
HandlerDeclaredOnce ==
    cpp_code.generated =>
        /\ \A m \in 1..Len(cpp_code.declarations) :
              \A n \in 1..Len(cpp_code.declarations) :
                  cpp_code.declarations[m] = cpp_code.declarations[n] => m = n
        /\ Range(cpp_code.declarations)
              = {Commands[k].handler : k \in 1..Len(Commands)} \ {None}

(***************************************************************************)
(* C12.  The emitted command table has one record for every command, in    *)
(* the order of the commands: record i holds the handler of commands[i]    *)
(* or nullptr, the number of its parameters, and its parameter array (an   *)
(* emitted array of that many descriptors) or nullptr; the command count   *)
(* is the number of commands; the maximum parameter count is the largest   *)
(* number of parameters of a command, and 0 when no command has any.       *)
(***************************************************************************)
\* The emitted parameter arrays named command_{i}_params.
ParamArraysNamed(i) ==
    {k \in 1..Len(cpp_code.param_arrays) : cpp_code.param_arrays[k].index = i}

CommandTableInOrder ==
    cpp_code.generated =>
        /\ Len(cpp_code.commands) = Len(Commands)
        /\ cpp_code.command_count = Len(Commands)
        /\ \A i \in 1..Len(Commands) :
              LET record == cpp_code.commands[i]
                  command == Commands[i]
              IN  /\ record.handler_ref
                        = IF command.handler = None THEN {} ELSE {command.handler}
                  /\ record.param_count = Len(command.parameters)
                  /\ IF command.parameters = <<>>
                     THEN record.param_ref = {}
                     ELSE /\ record.param_ref = {i - 1}
                          /\ Cardinality(ParamArraysNamed(i - 1)) = 1
                          /\ \A k \in ParamArraysNamed(i - 1) :
                                Len(cpp_code.param_arrays[k].descriptors)
                                    = Len(command.parameters)
        /\ \A i \in 1..Len(Commands) :
              Len(Commands[i].parameters) <= cpp_code.max_parameter_count
        /\ \/ \E i \in 1..Len(Commands) :
                 Len(Commands[i].parameters) = cpp_code.max_parameter_count
           \/ /\ cpp_code.max_parameter_count = 0
              /\ \A i \in 1..Len(Commands) : Commands[i].parameters = <<>>

\* Reached: code generated for two commands, the first with two parameters
\* and a handler, the second with fewer parameters and a response.
CommandTableInOrderWitness ==
    /\ cpp_code.generated
    /\ Len(Commands) = 2
    /\ Len(Commands[1].parameters) = 2
    /\ Len(Commands[2].parameters) < 2
    /\ Commands[1].handler # None
    /\ Commands[2].handler = None
    /\ cpp_code.max_parameter_count = 2

(***************************************************************************)
(* C13.  In the memory estimate the footprint of the trie is the number of *)
(* nodes times the size of a node; and the estimate of a definition that   *)
(* differs from the one loaded only in the length of one choice string     *)
(* differs in the footprint of the strings, by exactly the difference of   *)
(* the lengths (and so does the total, their sum), while the numbers of    *)
(* nodes, of arrays and of children and the footprints of the trie, of    *)
(* the commands and of the parameter descriptors are the same.             *)
(***************************************************************************)
\* The places of the choice strings of d: command, parameter, choice.
ChoiceSites(d) ==
    UNION {UNION {{<<i, j, k>> :
                      k \in 1..Len(d.commands[i].parameters[j].choices.items)} :
                  j \in {m \in 1..Len(d.commands[i].parameters) :
                            d.commands[i].parameters[m].choices.tag = "list"}} :
           i \in 1..Len(d.commands)}

ChoiceAt(d, site) == d.commands[site[1]].parameters[site[2]].choices.items[site[3]]

\* The string cut or padded to n characters.
Resized(choice, n) ==
    [m \in 1..n |-> IF m <= Len(choice) THEN choice[m] ELSE "x"]

\* d with the choice string at the site replaced.
WithChoice(d, site, choice) ==
    [d EXCEPT !.commands[site[1]].parameters[site[2]].choices.items[site[3]] = choice]

MemoryArithmetic ==
    cpp_code.generated =>
        LET usage == cpp_code.memory_usage
        IN  /\ usage.trie_nodes = usage.total_nodes * usage.node_size_bytes
            /\ usage.total_nodes = Cardinality(DOMAIN trie)
            /\ usage.total_code = usage.trie_nodes + usage.param_descriptors
                                      + usage.commands + usage.string_literals
            /\ \A site \in ChoiceSites(definition) :
                  \A n \in 0..(Len(ChoiceAt(definition, site)) + 2) :
                    LET other == WithChoice(definition, site,
                                            Resized(ChoiceAt(definition, site), n))
                        estimate == calculate_memory_usage(BuildTrie(other.commands), other)
                        difference == n - Len(ChoiceAt(definition, site))
                    IN  DefinitionValid(other) =>
                          /\ estimate.string_literals = usage.string_literals + difference
                          /\ estimate.total_code = usage.total_code + difference
                          /\ estimate.total_nodes = usage.total_nodes
                          /\ estimate.total_arrays = usage.total_arrays
                          /\ estimate.total_children = usage.total_children
                          /\ estimate.node_size_bytes = usage.node_size_bytes
                          /\ estimate.trie_nodes = usage.trie_nodes
                          /\ estimate.commands = usage.commands
                          /\ estimate.param_descriptors = usage.param_descriptors
                          /\ estimate.runtime_sram = usage.runtime_sram

\* Reached: code generated for a definition with choice strings, one of
\* which can be made longer and shorter with the definition still valid.
MemoryArithmeticWitness ==
    /\ cpp_code.generated
    /\ cpp_code.memory_usage.string_literals > 0
    /\ \E site \in ChoiceSites(definition) :
          /\ DefinitionValid(WithChoice(definition, site,
                                        Resized(ChoiceAt(definition, site), 3)))
          /\ DefinitionValid(WithChoice(definition, site,
                                        Resized(ChoiceAt(definition, site), 1)))
          /\ Len(ChoiceAt(definition, site)) = 2

(***************************************************************************)
(* C14.  The average lookup depth is the sum of the depths of the terminal *)
(* nodes divided by their number; for a built trie that is the mean length *)
(* of the distinct variation strings (5 for *IDN? alone); for a trie       *)
(* without terminal node it is 0 and nothing is raised.                    *)
(***************************************************************************)
RECURSIVE SumOfLengths(_)
\* The sum of the lengths of the strings of a set.
SumOfLengths(S) ==
    IF S = {} THEN 0
    ELSE LET p == CHOOSE q \in S : TRUE
         IN  Len(p) + SumOfLengths(S \ {p})

TerminalPaths == {p \in DOMAIN trie : trie[p].terminal}

AverageDepthIsMean ==
    HasTrie =>
        LET average == calculate_average_lookup_depth(trie)
        IN  /\ IF TerminalPaths = {}
               THEN average.num = 0 /\ average.den = 1
               ELSE /\ average.num = SumOfLengths(TerminalPaths)
                    /\ average.den = Cardinality(TerminalPaths)
            /\ Built =>
                  /\ average.num = SumOfLengths(AllVariations)
                  /\ average.den = Cardinality(AllVariations)
            /\ (Built /\ Len(Commands) = 1 /\ Commands[1].syntax = Syntax_IDN_Q)
                  => average.num = 5 * average.den
            /\ cpp_code.generated => cpp_code.average_lookup_depth = average

\* Reached: code generated for the definition of *IDN? alone, the average
\* being 5.
AverageDepthIsMeanWitness ==
    /\ cpp_code.generated
    /\ Len(Commands) = 1
    /\ Commands[1].syntax = Syntax_IDN_Q
    /\ cpp_code.average_lookup_depth = [num |-> 5, den |-> 1]

(***************************************************************************)
(* C15.  The trie does not depend on the order in which the variations of  *)
(* a command are inserted: in whatever order the variations of each        *)
(* command are taken, the trie built has the same paths, the same terminal *)
(* flags and the same command index on every terminal node as the trie of  *)
(* the run, and the emitted node tables are the same.                      *)
(***************************************************************************)
\* The orders in which n variations can be taken.
Orders(n) == {f \in [1..n -> 1..n] : \A a \in 1..n : \A b \in 1..n : f[a] = f[b] => a = b}

RECURSIVE OrdersFrom(_, _)
\* One order for every command from the i-th on.
OrdersFrom(commands, i) ==
    IF i > Len(commands)
    THEN {<<>>}
    ELSE {<<first>> \o rest :
            first \in Orders(Len(generate_command_variations(commands[i].syntax))),
            rest \in OrdersFrom(commands, i + 1)}

AllOrders(commands) == OrdersFrom(commands, 1)

\* The same paths, and on every path the same character, terminal flag,
\* command index and set of children.
SameTrie(a, b) ==
    /\ DOMAIN a = DOMAIN b
    /\ \A p \in DOMAIN a :
          /\ a[p].character = b[p].character
          /\ a[p].terminal = b[p].terminal
          /\ a[p].command_index = b[p].command_index
          /\ Range(a[p].children) = Range(b[p].children)

\* The trie is compared when the loop over the commands has just ended
\* (it does not change afterwards), the emitted tables when they exist.
OrderIndependent ==
    /\ Built => trie = BuildTrie(Commands)
    /\ cpp_code.generated =>
          cpp_code.trie_structure = generate_trie_structure(trie, Commands)
    /\ pc = "emit" =>
          \A orders \in AllOrders(Commands) :
              LET other == InsertCommands(RootOnly, Commands, orders, 1)
              IN  /\ SameTrie(other, trie)
                  /\ generate_trie_structure(other, Commands)
                        = generate_trie_structure(trie, Commands)

\* Reached: a trie just built, some node of which would hold its children
\* in another order had the variations been taken in another order.
OrderIndependentWitness ==
    /\ pc = "emit"
    /\ \E orders \in AllOrders(Commands) :
          \E p \in DOMAIN trie :
              InsertCommands(RootOnly, Commands, orders, 1)[p].children
                  # trie[p].children

(***************************************************************************)
(* C20.  The children arrays are emitted bottom-up: the array of a node    *)
(* comes after the arrays of all its descendants, so that every array a    *)
(* node text refers to is defined before the text; a node without          *)
(* children refers to nullptr with a child count of 0; the child count of  *)
(* every node is the number of its children.                               *)
(***************************************************************************)
Parent(p) == SubSeq(p, 1, Len(p) - 1)

NodeDefinitions == cpp_code.trie_structure.node_definitions

\* The positions of the emitted arrays of the children of the node at p.
ArraysOf(p) == {k \in 1..Len(NodeDefinitions) : NodeDefinitions[k].node_path = p}

\* The emitted texts of the node at p: the root node, or the entries of
\* the array of its parent that carry its character.
NodeTexts(p) ==
    IF p = <<>>
    THEN {cpp_code.trie_structure.root_def}
    ELSE UNION {{NodeDefinitions[k].entries[e] :
                    e \in {f \in 1..Len(NodeDefinitions[k].entries) :
                             NodeDefinitions[k].entries[f].character = p[Len(p)]}} :
                k \in ArraysOf(Parent(p))}

BottomUpEmission ==
    cpp_code.generated =>
        /\ \A k \in 1..Len(NodeDefinitions) : \A m \in 1..Len(NodeDefinitions) :
              ProperPrefix(NodeDefinitions[k].node_path, NodeDefinitions[m].node_path)
                  => m < k
        /\ \A p \in DOMAIN trie :
              /\ Cardinality(NodeTexts(p)) = 1
              /\ \A text \in NodeTexts(p) :
                    /\ text.child_count = Len(trie[p].children)
                    /\ IF trie[p].children = <<>>
                       THEN /\ text.children_ref = nullptr
                            /\ text.child_count = 0
                            /\ ArraysOf(p) = {}
                       ELSE /\ Cardinality(ArraysOf(p)) = 1
                            /\ \A k \in ArraysOf(p) :
                                  /\ NodeDefinitions[k].name = text.children_ref
                                  /\ Len(NodeDefinitions[k].entries) = text.child_count
                                  /\ \A m \in ArraysOf(Parent(p)) : p # <<>> => k < m

\* Reached: code generated from a trie with a node of two children, one
\* of them a leaf and the other with children of its own.
BottomUpEmissionWitness ==
    /\ cpp_code.generated
    /\ \E p \in DOMAIN trie :
          /\ Len(trie[p].children) = 2
          /\ trie[Append(p, trie[p].children[1])].children = <<>>
          /\ trie[Append(p, trie[p].children[2])].children # <<>>

(***************************************************************************)
(* Validation claims.                                                      *)
(***************************************************************************)
\* validate() has returned without raising.
Validated == pc = "construct" \/ HasTrie

\* validate() has raised.
Rejected == pc = "failed" /\ error = "ValueError" /\ ~HasTrie

\* The parameters of the commands of the definition.
AllParameters ==
    UNION {Range(Commands[k].parameters) : k \in 1..Len(Commands)}

\* The header of the definition is the valid one.
GoodHeader ==
    /\ definition.namespace = GoodNamespace
    /\ definition.class_name = GoodClassName
    /\ definition.output_file = GoodOutputFile

(***************************************************************************)
(* C16.  Validation accepts a command only if exactly one of response and  *)
(* handler is set: a definition with a command that has both, or neither,  *)
(* is rejected.                                                            *)
(***************************************************************************)
ExactlyOneSet(c) ==
    (c.handler # None /\ c.response = None) \/ (c.handler = None /\ c.response # None)

ResponseXorHandler ==
    /\ Validated => \A k \in 1..Len(Commands) : ExactlyOneSet(Commands[k])
    /\ (pc # "load" /\ \E k \in 1..Len(Commands) : ~ExactlyOneSet(Commands[k]))
          => Rejected

\* Reached: a definition rejected whose only command has both a handler
\* and a response and is valid otherwise.
ResponseXorHandlerWitness ==
    /\ Rejected
    /\ GoodHeader
    /\ Len(Commands) = 1
    /\ Commands[1].handler # None
    /\ Commands[1].response # None
    /\ SyntaxMatches(Commands[1].syntax)
    /\ Commands[1].parameters = <<>>

(***************************************************************************)
(* C17.  Every parameter of a definition that passed validation has a      *)
(* default that is absent or consistent with the type: a number for a      *)
(* number parameter (a boolean is not a number), a string for a string     *)
(* parameter, a boolean for a boolean parameter, one of the choices for an *)
(* enum parameter, and none at all for an arbitrarydata parameter.         *)
(***************************************************************************)
DefaultConsistent(p) ==
    p.default.tag # "none" =>
        /\ p.type = "number" => p.default.tag \in {"int", "float"}
        /\ p.type = "string" => p.default.tag = "str"
        /\ p.type = "boolean" => p.default.tag = "bool"
        /\ p.type = "enum" =>
              (p.default.tag = "str" /\ p.default.val \in Range(p.choices.items))
        /\ p.type # "arbitrarydata"

DefaultTypeConsistent ==
    Validated => \A p \in AllParameters : DefaultConsistent(p)

(***************************************************************************)
(* C18.  In every parameter of a definition that passed validation the     *)
(* choices are present if and only if the type is enum.                    *)
(***************************************************************************)
ChoicesIffEnum ==
    Validated =>
        \A p \in AllParameters : (p.choices.tag # "none") <=> (p.type = "enum")

(***************************************************************************)
(* C18, as the code has it.  In every parameter of a definition that       *)
(* passed validation: an enum parameter has a non-empty list of choices,   *)
(* an arbitrarydata parameter has no choices; choices that are not empty   *)
(* are a list.  A string, number or boolean parameter may carry choices,   *)
(* and they are emitted in its descriptor.                                 *)
(***************************************************************************)
ChoicesRule ==
    /\ Validated =>
          \A p \in AllParameters :
              /\ p.type = "enum" => (p.choices.tag = "list" /\ p.choices.items # <<>>)
              /\ p.type = "arbitrarydata" => p.choices.tag = "none"
              /\ p.choices.items # <<>> => p.choices.tag = "list"
    /\ cpp_code.generated =>
          \A a \in 1..Len(cpp_code.param_arrays) :
              LET array == cpp_code.param_arrays[a]
                  parameters == Commands[array.index + 1].parameters
              IN  \A j \in 1..Len(parameters) :
                      /\ array.descriptors[j].type = parameters[j].type
                      /\ array.descriptors[j].choices = parameters[j].choices.items
                      /\ array.descriptors[j].choice_count
                            = Len(parameters[j].choices.items)

\* Reached: code generated for a definition with a string parameter that
\* carries two choices, emitted in its descriptor.
ChoicesRuleWitness ==
    /\ cpp_code.generated
    /\ \E p \in AllParameters : p.type = "string" /\ Len(p.choices.items) = 2
    /\ \E a \in 1..Len(cpp_code.param_arrays) :
          \E j \in 1..Len(cpp_code.param_arrays[a].descriptors) :
              /\ cpp_code.param_arrays[a].descriptors[j].type = "string"
              /\ cpp_code.param_arrays[a].descriptors[j].choice_count = 2

(***************************************************************************)
(* C19.  Validation is exhaustive: a definition passes only if its list of *)
(* commands is not empty and every command at every position, and every    *)
(* parameter of every command, satisfies its rules; one invalid command or *)
(* parameter at any position makes validation fail.                        *)
(***************************************************************************)
ValidationExhaustive ==
    /\ Validated =>
          /\ Commands # <<>>
          /\ \A k \in 1..Len(Commands) :
                /\ Commands[k].syntax # <<>>
                /\ SyntaxMatches(Commands[k].syntax)
                /\ ExactlyOneSet(Commands[k])
                /\ \A j \in 1..Len(Commands[k].parameters) :
                      ParameterValid(Commands[k].parameters[j])
    /\ (pc # "load"
          /\ \/ Commands = <<>>
             \/ \E k \in 1..Len(Commands) :
                   \/ ~CommandValid(Commands[k])
                   \/ \E j \in 1..Len(Commands[k].parameters) :
                         ~ParameterValid(Commands[k].parameters[j]))
          => Rejected

\* Reached: a definition rejected for the second parameter of its second
\* command alone.
ValidationExhaustiveWitness ==
    /\ Rejected
    /\ GoodHeader
    /\ Len(Commands) = 2
    /\ CommandValid(Commands[1])
    /\ SyntaxMatches(Commands[2].syntax)
    /\ ExactlyOneSet(Commands[2])
    /\ Len(Commands[2].parameters) = 2
    /\ ParameterValid(Commands[2].parameters[1])
    /\ ~ParameterValid(Commands[2].parameters[2])

(***************************************************************************)
(* C21.  Every traversal of the built trie takes the children of a node in *)
(* ascending order of their characters, whatever the order of insertion:   *)
(* the entries of the trie printout, the paths returned by the walk of the *)
(* path listing and the depths returned by the walk of the estimator come  *)
(* in ascending order of the paths, and the entries of every emitted       *)
(* children array in ascending order of the characters.                    *)
(***************************************************************************)
AscendingTraversal ==
    /\ stdout.printed =>
          \A k \in 1..(Len(stdout.trie_text) - 1) :
              StrLess(stdout.trie_text[k].prefix, stdout.trie_text[k + 1].prefix)
    /\ Built =>
          LET all_paths == get_all_paths(trie, <<>>)
          IN  /\ all_paths = sorted(all_paths)
              /\ TerminalDepths(trie)
                    = [k \in 1..Len(all_paths) |-> Len(sorted(all_paths)[k])]
    /\ cpp_code.generated =>
          \A a \in 1..Len(NodeDefinitions) :
              \A k \in 1..(Len(NodeDefinitions[a].entries) - 1) :
                  ord[NodeDefinitions[a].entries[k].character]
                      < ord[NodeDefinitions[a].entries[k + 1].character]

(***************************************************************************)
(* C22.  Structure of the trie in every state of the construction and      *)
(* after it: the root is never terminal; once a variation has been         *)
(* inserted, every node without children is terminal; every terminal node  *)
(* has a command index among 0..len(commands)-1; every node that is not    *)
(* terminal has no command index.                                          *)
(***************************************************************************)
\* At least one variation has been inserted.
Inserted == Built \/ (pc = "build" /\ (cmd_i > 1 \/ var_j > 1))

TrieStructure ==
    HasTrie =>
        /\ ~trie[<<>>].terminal
        /\ \A p \in DOMAIN trie :
              /\ (trie[p].children = <<>> /\ (p # <<>> \/ Inserted))
                    => trie[p].terminal
              /\ trie[p].terminal =>
                    \E i \in 0..(Len(Commands) - 1) : trie[p].command_index = Some(i)
              /\ ~trie[p].terminal => trie[p].command_index = NoIndex

\* Reached: during the insertion of the second command, a trie with a
\* terminal node that has a child, a terminal node of the second command
\* and a node that is not terminal other than the root.
TrieStructureWitness ==
    /\ pc = "build"
    /\ cmd_i = 2
    /\ var_j = 2
    /\ \E p \in DOMAIN trie : trie[p].terminal /\ trie[p].children # <<>>
    /\ \E p \in DOMAIN trie : trie[p].terminal /\ trie[p].command_index = Some(1)
    /\ \E p \in DOMAIN trie : p # <<>> /\ ~trie[p].terminal

(***************************************************************************)
(* C23.  The estimator and the emitter agree on the trie: the total_nodes  *)
(* of the memory estimate is 1 plus the number of distinct non-empty       *)
(* prefixes of the variations of all commands, and it is the number of     *)
(* node texts the emitter writes (the root and the entries of all children *)
(* arrays); total_arrays is the number of children arrays emitted;         *)
(* total_children is total_nodes - 1.                                      *)
(***************************************************************************)
\* The non-empty prefixes of the variations of all commands.
VariationPrefixes ==
    UNION {{SubSeq(v, 1, k) : k \in 1..Len(v)} : v \in AllVariations}

\* The number of node texts written: the root and every entry of an array.
EmittedNodes ==
    1 + SumOver([a \in 1..Len(NodeDefinitions) |->
                    Len(NodeDefinitions[a].entries)], 1)

EstimatorMatchesEmitter ==
    cpp_code.generated =>
        /\ cpp_code.memory_usage.total_nodes = 1 + Cardinality(VariationPrefixes)
        /\ cpp_code.memory_usage.total_nodes = EmittedNodes
        /\ cpp_code.memory_usage.total_arrays = Len(NodeDefinitions)
        /\ cpp_code.memory_usage.total_children
              = cpp_code.memory_usage.total_nodes - 1

\* Reached: code generated from a trie of two commands with a node that
\* has two children and with nodes that have none.
EstimatorMatchesEmitterWitness ==
    /\ cpp_code.generated
    /\ Len(Commands) = 2
    /\ \E a \in 1..Len(NodeDefinitions) : Len(NodeDefinitions[a].entries) = 2
    /\ cpp_code.memory_usage.total_arrays >= 2
    /\ cpp_code.memory_usage.total_arrays < cpp_code.memory_usage.total_nodes - 1

(***************************************************************************)
(* C24.  _generate_node_name is injective on trie paths: two different     *)
(* paths over uppercase letters, digits, '_', '*', ':' and '?' never get   *)
(* the same name (so A_ and A_95, or : and _COLON, get different names),   *)
(* and no two children arrays emitted for one trie have the same name.     *)
(***************************************************************************)
\* Characters of the enumerated paths: a letter of an escape word, the
\* digits of the code point of '_', and the escaped characters.
NameAlphabet == {"A", "C", "9", "5", "_", "*", ":", "?"}

\* Paths whose names could be taken for the name of another path.
SamplePaths ==
    {<<"A","_">>, <<"A","_","9","5">>, <<":">>, <<"_","C","O","L","O","N">>,
     <<"*">>, <<"_","S","T","A","R">>, <<"?">>,
     <<"_","Q","U","E","S","T","I","O","N">>, <<"_","9","5","9","5">>,
     <<"_","5","8">>, <<"R","O","O","T">>, <<"N","O","D","E","_">>}

\* The paths named: every path over NameAlphabet up to MaxPathLen (the
\* empty path of the root included) and the sample paths.
NamePaths ==
    UNION {[1..k -> NameAlphabet] : k \in 0..MaxPathLen} \cup SamplePaths

\* The names of the paths named.
PathNames == {generate_node_name(p) : p \in NamePaths}

\* No two of the paths named have one name.
PathNamesDistinct == Cardinality(PathNames) = Cardinality(NamePaths)

NodeNamesInjective ==
    /\ PathNamesDistinct
    /\ generate_node_name(<<"A","_">>) # generate_node_name(<<"A","_","9","5">>)
    /\ generate_node_name(<<":">>)
          # generate_node_name(<<"_","C","O","L","O","N">>)
    /\ HasTrie =>
          /\ \A p \in DOMAIN trie :
                generate_node_name(p) \in PathNames => p \in NamePaths
          /\ Cardinality({generate_node_name(p) : p \in DOMAIN trie})
                = Cardinality(DOMAIN trie)
    /\ cpp_code.generated =>
          \A a \in 1..Len(NodeDefinitions) : \A b \in 1..Len(NodeDefinitions) :
              NodeDefinitions[a].name = NodeDefinitions[b].name => a = b

\* Reached: code generated with children arrays named after a path with
\* '_' and a digit, and after paths with ':' and '?'.
NodeNamesInjectiveWitness ==
    /\ cpp_code.generated
    /\ \E a \in 1..Len(NodeDefinitions) :
          /\ "_" \in Range(NodeDefinitions[a].node_path)
          /\ "1" \in Range(NodeDefinitions[a].node_path)
    /\ \E a \in 1..Len(NodeDefinitions) : ":" \in Range(NodeDefinitions[a].node_path)
    /\ \E a \in 1..Len(NodeDefinitions) :
          "?" = NodeDefinitions[a].entries[1].character
    /\ Len(NodeDefinitions) > 10

====
